---- MODULE Spec2Model ----
(***************************************************************************)
(* Model of the AI-Powered Data Chatbot (src/main.py, src/llm_helper.py,   *)
(* src/styles.py) and of the start of its single-file version              *)
(* (src/chatbot.py).                                                       *)
(*                                                                         *)
(* Text is a sequence of characters, each a one-character string.  The     *)
(* fixed pieces of markup the code emits (an opening tag with its style    *)
(* attribute, a closing tag, a message template) and the fixed prefixes of *)
(* the error texts are single elements of such a sequence: none of them    *)
(* is whitespace, a newline, "-", "#" or "*", so no later pass of the code *)
(* can tell them from one ordinary character.                              *)
(***************************************************************************)
EXTENDS Naturals, Sequences, FiniteSets, TLC

VARIABLES
    data_edit,      \* text of the QPlainTextEdit holding the data
    chat_input,     \* text of the QLineEdit holding the question
    data_text,      \* DataChatBotDemo.data_text
    chat_history,   \* DataChatBotDemo.chat_history: list of (sender, message)
    chat_area,      \* markup last given to chat_area.setHtml
    status,         \* text of the status label
    cursor,         \* depth of QApplication's override-cursor stack
    stack,          \* user_question of every _on_send suspended in processEvents
    last,           \* the operation run by the last step and its inputs
    appended,       \* (sender, message) of every _add_to_chat call since the last clear
    in_lines,       \* formatter run: the lines of the input
    text,           \* formatter run: the input text
    html,           \* formatter run: the returned markup
    fpc,            \* formatter run: "input" before the call, "output" after
    api_key,        \* whether OPENAI_API_KEY holds a non-empty value
    entry,          \* what was started: "none", "main.py", "chatbot.py", or
                    \* "llm_helper" when the host code builds an LLMHelper itself
    shown,          \* whether the main widget has been shown
    model,          \* the model requests are made with, "none" without a helper
    requests,       \* calls of openai.chat.completions.create made so far
    cfg_last        \* the start or configuration operation run by the last step

gui_vars == <<data_edit, chat_input, data_text, chat_history, chat_area,
              status, cursor, stack, last, appended>>
fmt_vars == <<in_lines, text, html, fpc>>
start_vars == <<api_key, entry, shown, model, requests, cfg_last>>
vars == <<data_edit, chat_input, data_text, chat_history, chat_area,
          status, cursor, stack, last, appended, in_lines, text, html, fpc,
          api_key, entry, shown, model, requests, cfg_last>>

----------------------------------------------------------------------------
(* Bounds *)

\* most completion calls in a run of the start model
MaxRequests == 3
\* most lines in a formatter input
MaxLines == 3
\* most sends accepted between two clears of the transcript
MaxSends == 2

----------------------------------------------------------------------------
(* Python string helpers *)

NL == "\n"

\* str.strip() removes whitespace characters
IsSpace(c) == c \in {" ", "\n", "\t"}

RECURSIVE lstrip(_)
lstrip(s) == IF s # <<>> /\ IsSpace(Head(s)) THEN lstrip(Tail(s)) ELSE s

RECURSIVE rstrip(_)
rstrip(s) ==
    IF s # <<>> /\ IsSpace(s[Len(s)]) THEN rstrip(SubSeq(s, 1, Len(s) - 1)) ELSE s

strip(s) == rstrip(lstrip(s))

startswith(s, p) == Len(s) >= Len(p) /\ SubSeq(s, 1, Len(p)) = p

\* position of the first newline of s, 0 when there is none
FirstNL(s) ==
    IF \E i \in 1..Len(s) : s[i] = NL
    THEN CHOOSE i \in 1..Len(s) : s[i] = NL /\ \A j \in 1..(i - 1) : s[j] # NL
    ELSE 0

\* text.split('\n')
RECURSIVE split(_)
split(s) ==
    LET i == FirstNL(s) IN
    IF i = 0 THEN <<s>>
    ELSE <<SubSeq(s, 1, i - 1)>> \o split(SubSeq(s, i + 1, Len(s)))

\* '\n'.join(lines)
RECURSIVE join(_)
join(ls) ==
    IF ls = <<>> THEN <<>>
    ELSE IF Len(ls) = 1 THEN ls[1]
    ELSE ls[1] \o <<NL>> \o join(Tail(ls))

\* concatenation of a sequence of texts
RECURSIVE concat(_)
concat(ls) == IF ls = <<>> THEN <<>> ELSE Head(ls) \o concat(Tail(ls))

----------------------------------------------------------------------------
(* LLMHelper.format_markdown_to_html *)

STAR2 == <<"*", "*">>

BoldClose_greedy(s) ==
    LET ok(j) == /\ s[j] = "*" /\ s[j + 1] = "*"
                 /\ \A k \in 3..(j - 1) : s[k] # NL
        js == {j \in 3..(Len(s) - 1) : ok(j)}
    IN  IF startswith(s, STAR2) /\ js # {}
        THEN CHOOSE j \in js : \A k \in js : j >= k
        ELSE 0

\* index at which the closing ** of r'\*\*(.*?)\*\*' matches when the opening
\* ** is s[1..2]: the least j >= 3 with ** at j and no newline in s[3..j-1]
\* ('.' does not match a newline); 0 when the pattern does not match at 1.
BoldClose(s) ==
    LET ok(j) == /\ s[j] = "*" /\ s[j + 1] = "*"
                 /\ \A k \in 3..(j - 1) : s[k] # NL
        js == {j \in 3..(Len(s) - 1) : ok(j)}
    IN  IF startswith(s, STAR2) /\ js # {}
        THEN CHOOSE j \in js : \A k \in js : j <= k
        ELSE 0

\* re.sub(r'\*\*(.*?)\*\*', r'<b>\1</b>', text)
RECURSIVE bold_sub(_)
bold_sub(s) ==
    IF s = <<>> THEN <<>>
    ELSE LET j == BoldClose(s) IN
         IF j > 0
         THEN <<"<b>">> \o SubSeq(s, 3, j - 1) \o <<"</b>">>
                  \o bold_sub(SubSeq(s, j + 2, Len(s)))
         ELSE <<Head(s)>> \o bold_sub(Tail(s))

\* the "### ", "## " or "# " a heading line of the level starts with
HeaderPrefix(level) == [i \in 1..(level + 1) |-> IF i <= level THEN "#" ELSE " "]

HeaderOpen(level) == CASE level = 1 -> "<h1>" [] level = 2 -> "<h2>" [] level = 3 -> "<h3>"
HeaderClose(level) == CASE level = 1 -> "</h1>" [] level = 2 -> "</h2>" [] level = 3 -> "</h3>"

\* the replacement of one line by r'^#{level} (.*?)$'
header_line(line, level) ==
    IF startswith(line, HeaderPrefix(level))
    THEN <<HeaderOpen(level)>> \o SubSeq(line, level + 2, Len(line))
             \o <<HeaderClose(level)>>
    ELSE line

\* re.sub(r'^#{level} (.*?)$', r'<hN ...>\1</hN>', text, flags=re.MULTILINE)
header_sub(s, level) ==
    LET ls == split(s) IN join([i \in 1..Len(ls) |-> header_line(ls[i], level)])

UL_OPEN == <<"<ul>">>
UL_CLOSE == <<"</ul>">>

list_item(stripped) ==
    <<"<li>">> \o SubSeq(stripped, 3, Len(stripped)) \o <<"</li>">>

paragraph_stripped(line, stripped) == <<"<p>">> \o stripped \o <<"</p>">>

paragraph(line, stripped) == <<"<p>">> \o line \o <<"</p>">>

is_list_line_dash_only(stripped) == startswith(stripped, <<"-">>)

is_list_line(stripped) == startswith(stripped, <<"-", " ">>)

RECURSIVE scan_lines_keeps_blank(_, _)
scan_lines_keeps_blank(ls, in_list) ==
    IF ls = <<>>
    THEN IF in_list THEN <<UL_CLOSE>> ELSE <<>>
    ELSE LET line == Head(ls)
             stripped == strip(line)
         IN  IF is_list_line(stripped)
             THEN (IF ~in_list THEN <<UL_OPEN>> ELSE <<>>)
                      \o <<list_item(stripped)>>
                      \o scan_lines_keeps_blank(Tail(ls), TRUE)
             ELSE (IF in_list THEN <<UL_CLOSE>> ELSE <<>>)
                      \o <<paragraph(line, stripped)>>
                      \o scan_lines_keeps_blank(Tail(ls), FALSE)

\* the for loop over the lines and the close after it; the result is
\* formatted_lines
RECURSIVE scan_lines(_, _)
scan_lines(ls, in_list) ==
    IF ls = <<>>
    THEN IF in_list THEN <<UL_CLOSE>> ELSE <<>>
    ELSE LET line == Head(ls)
             stripped == strip(line)
         IN  IF is_list_line(stripped)
             THEN (IF ~in_list THEN <<UL_OPEN>> ELSE <<>>)
                      \o <<list_item(stripped)>>
                      \o scan_lines(Tail(ls), TRUE)
             ELSE (IF in_list THEN <<UL_CLOSE>> ELSE <<>>)
                      \o (IF stripped # <<>> THEN <<paragraph(line, stripped)>> ELSE <<>>)
                      \o scan_lines(Tail(ls), FALSE)

format_markdown_to_html_scan_first(s) ==
    LET t1 == bold_sub(s)
        t2 == join(scan_lines(split(t1), FALSE))
    IN  header_sub(header_sub(header_sub(t2, 3), 2), 1)

format_markdown_to_html(s) ==
    LET t1 == bold_sub(s)
        t2 == header_sub(t1, 3)
        t3 == header_sub(t2, 2)
        t4 == header_sub(t3, 1)
    IN  join(scan_lines(split(t4), FALSE))

----------------------------------------------------------------------------
(* Formatter runs: one call of format_markdown_to_html on a bounded input *)

\* the lines the inputs are made of
LineSet ==
    { <<>>,
      <<" ">>,
      <<"a">>,
      <<" ", "a", " ">>,
      <<"-", " ", "a">>,
      <<" ", "-", " ", "a">>,
      <<"-", " ">>,
      <<"#", " ", "a">>,
      <<"#", "#", " ", "a">>,
      <<"#", "#", "#", " ", "a">>,
      <<"#", " ", "-", " ", "a">>,
      <<"*", "*", "a", "*", "*">>,
      <<"*", "*", "a">>,
      <<"*", "*", "*", "*">>,
      <<"*", "*", "a", "*", "*", "b", "*", "*">>,
      \* a plain line whose whole text is the closing list tag
      <<"</ul>">> }

FmtInputs == UNION {[1..n -> LineSet] : n \in 1..MaxLines}

FmtIdle ==
    /\ in_lines = <<>>
    /\ text = <<>>
    /\ html = <<>>
    /\ fpc = "idle"

FmtInit ==
    /\ in_lines \in FmtInputs
    /\ text = join(in_lines)
    /\ html = <<>>
    /\ fpc = "input"

FormatCall ==
    /\ fpc = "input"
    /\ html' = format_markdown_to_html(text)
    /\ fpc' = "output"
    /\ UNCHANGED <<in_lines, text>>
    /\ UNCHANGED <<gui_vars, start_vars>>

FmtNext == FormatCall

----------------------------------------------------------------------------
(* src/styles.py, LLMHelper: the chat markup *)

\* the fixed welcome markup
get_welcome_message == <<"<div welcome>">>

format_chat_message_formats_user(sender, message, is_user) ==
    IF is_user
    THEN <<"<div user>", sender, "<div user message>">>
             \o format_markdown_to_html(message) \o <<"</div user>">>
    ELSE <<"<div assistant>">> \o format_markdown_to_html(message)
             \o <<"</div assistant>">>

format_chat_message(sender, message, is_user) ==
    IF is_user
    THEN <<"<div user>", sender, "<div user message>">> \o message \o <<"</div user>">>
    ELSE <<"<div assistant>">> \o format_markdown_to_html(message)
             \o <<"</div assistant>">>

build_chat_history_html(history) ==
    concat([i \in 1..Len(history) |->
               format_chat_message(history[i][1], history[i][2], history[i][1] = "You")])

----------------------------------------------------------------------------
(* LLMHelper.ask_llm: the completion service either returns a content or   *)
(* fails with a detail                                                     *)

\* contents the service may return
Contents == { <<" ">>, <<"-", " ", "r", " ">> }
\* details the service may fail with
Details == { <<"e">>, <<"e", " ">> }

Outcomes == [ok : {TRUE}, text : Contents] \cup [ok : {FALSE}, text : Details]

API_ERROR == <<"Error communicating with OpenAI API:", " ">>
APOLOGY == <<"I apologize, but I encountered an error:", " ">>
STATUS_ERROR == <<"Error:", " ">>

\* the value ask_llm returns, or the text of the exception it raises
ask_llm(outcome) ==
    IF outcome.ok
    THEN [raised |-> FALSE, value |-> strip(outcome.text)]
    ELSE [raised |-> TRUE, value |-> API_ERROR \o outcome.text]

----------------------------------------------------------------------------
(* DataChatBotDemo *)

\* texts the user types, pastes or loads into the data area
DataTexts == { <<" ">>, <<"d">> }
\* texts the user types into the question field
QuestionTexts == { <<" ">>, <<"-", " ", "q", " ">> }

Op(name, arg) == [op |-> name, arg |-> arg]

MODEL == "gpt-4o-mini"

\* main() has found the key, built the widget and shown it
StartIdle ==
    /\ api_key = TRUE
    /\ entry = "main.py"
    /\ shown = TRUE
    /\ model = MODEL
    /\ requests = 0
    /\ cfg_last = Op("main", <<>>)

Init ==
    /\ data_edit = <<>>
    /\ chat_input = <<>>
    /\ data_text = <<>>
    /\ chat_history = <<>>
    /\ chat_area = get_welcome_message
    /\ status = <<"Ready">>
    /\ cursor = 0
    /\ stack = <<>>
    /\ last = Op("init", <<>>)
    /\ appended = <<>>
    /\ FmtIdle
    /\ StartIdle

_add_to_chat_unchecked(sender, message) ==
    /\ appended' = Append(appended, <<sender, message>>)
    /\ chat_history' = Append(chat_history, <<sender, message>>)
    /\ chat_area' = build_chat_history_html(chat_history')

_add_to_chat_front(sender, message) ==
    /\ appended' = Append(appended, <<sender, message>>)
    /\ IF strip(message) = <<>>
       THEN UNCHANGED <<chat_history, chat_area>>
       ELSE /\ chat_history' = <<<<sender, strip(message)>>>> \o chat_history
            /\ chat_area' = build_chat_history_html(chat_history')

_add_to_chat_stale_display(sender, message) ==
    /\ appended' = Append(appended, <<sender, message>>)
    /\ IF strip(message) = <<>>
       THEN UNCHANGED <<chat_history, chat_area>>
       ELSE /\ chat_history' = Append(chat_history, <<sender, strip(message)>>)
            /\ chat_area' = build_chat_history_html(chat_history)

_add_to_chat(sender, message) ==
    /\ appended' = Append(appended, <<sender, message>>)
    /\ IF strip(message) = <<>>
       THEN UNCHANGED <<chat_history, chat_area>>
       ELSE /\ chat_history' = Append(chat_history, <<sender, strip(message)>>)
            /\ chat_area' = build_chat_history_html(chat_history')

\* the user edits the data area
TypeData ==
    \E d \in DataTexts :
        /\ data_edit' = d
        /\ last' = Op("type_data", d)
        /\ UNCHANGED <<chat_input, data_text, chat_history, chat_area, status,
                       cursor, stack, appended>>
        /\ UNCHANGED <<fmt_vars, start_vars>>

\* the user edits the question field
TypeQuestion ==
    \E q \in QuestionTexts :
        /\ chat_input' = q
        /\ last' = Op("type_question", q)
        /\ UNCHANGED <<data_edit, data_text, chat_history, chat_area, status,
                       cursor, stack, appended>>
        /\ UNCHANGED <<fmt_vars, start_vars>>

\* clear_btn.clicked: lambda: self.data_edit.clear()
ClearData ==
    /\ data_edit' = <<>>
    /\ last' = Op("clear_data", <<>>)
    /\ UNCHANGED <<chat_input, data_text, chat_history, chat_area, status,
                   cursor, stack, appended>>
    /\ UNCHANGED <<fmt_vars, start_vars>>

_paste_clipboard ==
    \E clip \in DataTexts \cup {<<>>} :
        /\ IF clip # <<>>
           THEN data_edit' = clip /\ status' = <<"Clipboard content pasted successfully">>
           ELSE data_edit' = data_edit /\ status' = <<"Clipboard is empty">>
        /\ last' = Op("_paste_clipboard", clip)
        /\ UNCHANGED <<chat_input, data_text, chat_history, chat_area,
                       cursor, stack, appended>>
        /\ UNCHANGED <<fmt_vars, start_vars>>

\* the dialog is cancelled, or the file is read, or reading it raises
_load_file ==
    \E file \in [chosen : {FALSE}, readable : {FALSE}, content : {<<>>}]
                \cup [chosen : {TRUE}, readable : {FALSE}, content : {<<>>}]
                \cup [chosen : {TRUE}, readable : {TRUE}, content : DataTexts \cup {<<>>}] :
        /\ IF ~file.chosen
           THEN UNCHANGED <<data_edit, status>>
           ELSE IF file.readable
                THEN data_edit' = file.content /\ status' = <<"Successfully loaded">>
                ELSE data_edit' = data_edit /\ status' = <<"Error loading file">>
        /\ last' = Op("_load_file", file)
        /\ UNCHANGED <<chat_input, data_text, chat_history, chat_area,
                       cursor, stack, appended>>
        /\ UNCHANGED <<fmt_vars, start_vars>>

\* the two checks at the head of _on_send
on_send_check_question_unstripped(data, question) ==
    IF strip(data) = <<>> THEN "no data"
    ELSE IF question = <<>> THEN "no question"
    ELSE "ok"

on_send_check(data, question) ==
    IF strip(data) = <<>> THEN "no data"
    ELSE IF strip(question) = <<>> THEN "no question"
    ELSE "ok"

\* _on_send up to QApplication.processEvents(): that call dispatches the
\* events pending in the queue (the clicks and key presses that arrived while
\* an earlier handler was blocked), so every event action below is enabled
\* while the activation is suspended in it.  The activation's local
\* user_question is pushed on stack; data_text is an attribute of the widget.
_on_send ==
    LET user_question == strip(chat_input)
        check == on_send_check(data_edit, chat_input)
    IN  /\ data_text' = strip(data_edit)
        /\ last' = Op("_on_send", <<>>)
        /\ IF check = "no data"
           THEN /\ status' = <<"Please paste or load your data first">>
                /\ UNCHANGED <<chat_input, chat_history, chat_area, cursor, stack,
                               appended>>
           ELSE IF check = "no question"
           THEN /\ status' = <<"Please type your question">>
                /\ UNCHANGED <<chat_input, chat_history, chat_area, cursor, stack,
                               appended>>
           ELSE /\ Len(appended) + Len(stack) + 2 <= 2 * MaxSends
                /\ _add_to_chat("You", user_question)
                /\ chat_input' = <<>>
                /\ status' = <<"AI is analyzing your data...">>
                /\ cursor' = cursor + 1
                /\ stack' = Append(stack, user_question)
        /\ UNCHANGED data_edit
        /\ UNCHANGED <<fmt_vars, start_vars>>

error_msg_without_detail(ex) == APOLOGY

\* the text _on_send adds to the chat when ask_llm raised ex
error_msg(ex) == APOLOGY \o ex

_on_send_ask_retries ==
    /\ stack # <<>>
    /\ \E outcome \in Outcomes :
          LET user_question == stack[Len(stack)]
              r == ask_llm(outcome)
          IN  /\ last' = Op("ask_llm", [data |-> data_text, question |-> user_question,
                                        outcome |-> outcome])
              /\ IF ~r.raised
                 THEN /\ _add_to_chat("AI", r.value)
                      /\ status' = <<"Response received">>
                      /\ cursor' = cursor - 1
                      /\ stack' = SubSeq(stack, 1, Len(stack) - 1)
                 ELSE /\ status' = STATUS_ERROR \o r.value
                      /\ UNCHANGED <<chat_history, chat_area, appended, cursor, stack>>
    /\ UNCHANGED <<data_edit, chat_input, data_text>>
    /\ UNCHANGED <<fmt_vars, start_vars>>

_on_send_ask_restores_on_success ==
    /\ stack # <<>>
    /\ \E outcome \in Outcomes :
          LET user_question == stack[Len(stack)]
              r == ask_llm(outcome)
          IN  /\ last' = Op("ask_llm", [data |-> data_text, question |-> user_question,
                                        outcome |-> outcome])
              /\ IF ~r.raised
                 THEN /\ _add_to_chat("AI", r.value)
                      /\ status' = <<"Response received">>
                      /\ cursor' = cursor - 1
                 ELSE /\ _add_to_chat("AI", error_msg(r.value))
                      /\ status' = STATUS_ERROR \o r.value
                      /\ cursor' = cursor
    /\ stack' = SubSeq(stack, 1, Len(stack) - 1)
    /\ UNCHANGED <<data_edit, chat_input, data_text>>
    /\ UNCHANGED <<fmt_vars, start_vars>>

\* the rest of the innermost suspended _on_send: processEvents returns, the
\* blocking ask_llm call is made and its result or its exception is handled
_on_send_ask ==
    /\ stack # <<>>
    /\ \E outcome \in Outcomes :
          LET user_question == stack[Len(stack)]
              r == ask_llm(outcome)
          IN  /\ last' = Op("ask_llm", [data |-> data_text, question |-> user_question,
                                        outcome |-> outcome])
              /\ IF ~r.raised
                 THEN /\ _add_to_chat("AI", r.value)
                      /\ status' = <<"Response received">>
                 ELSE /\ _add_to_chat("AI", error_msg(r.value))
                      /\ status' = STATUS_ERROR \o r.value
    /\ cursor' = cursor - 1
    /\ stack' = SubSeq(stack, 1, Len(stack) - 1)
    /\ UNCHANGED <<data_edit, chat_input, data_text>>
    /\ UNCHANGED <<fmt_vars, start_vars>>

clear_chat_history_keeps_markup ==
    /\ stack = <<>>
    /\ chat_history' = <<>>
    /\ chat_area' = chat_area
    /\ status' = <<"Chat history cleared">>
    /\ appended' = <<>>
    /\ last' = Op("clear_chat_history", Len(chat_history))
    /\ UNCHANGED <<data_edit, chat_input, data_text, cursor, stack>>
    /\ UNCHANGED <<fmt_vars, start_vars>>

\* no widget is wired to clear_chat_history and set_data_text: the host code
\* calls them between two user actions
clear_chat_history ==
    /\ stack = <<>>
    /\ chat_history' = <<>>
    /\ chat_area' = get_welcome_message
    /\ status' = <<"Chat history cleared">>
    /\ appended' = <<>>
    /\ last' = Op("clear_chat_history", Len(chat_history))
    /\ UNCHANGED <<data_edit, chat_input, data_text, cursor, stack>>
    /\ UNCHANGED <<fmt_vars, start_vars>>

\* list.copy(): a new list object holding the same items; alias tells whether
\* the result is the object it was copied from
copy_same_object(list) == [alias |-> TRUE, items |-> list]

copy(list) == [alias |-> FALSE, items |-> list]

get_chat_history == copy(chat_history)

\* what the host code does to a list it holds
ListMutations == {"append", "remove", "replace"}

mutate(list, m) ==
    IF m = "append" THEN Append(list, <<"You", <<"x">>>>)
    ELSE IF list = <<>> THEN list
    ELSE IF m = "remove" THEN SubSeq(list, 1, Len(list) - 1)
    ELSE <<<<"AI", <<"x">>>>>> \o Tail(list)

\* the host code takes the history and changes the list it was given
InspectHistory ==
    /\ stack = <<>>
    /\ \E m \in ListMutations :
          LET returned == get_chat_history
          IN  /\ last' = Op("get_chat_history", [mutation |-> m,
                                                 held |-> mutate(returned.items, m)])
              /\ chat_history' = IF returned.alias
                                 THEN mutate(returned.items, m)
                                 ELSE chat_history
    /\ UNCHANGED <<data_edit, chat_input, data_text, chat_area, status, cursor,
                   stack, appended>>
    /\ UNCHANGED <<fmt_vars, start_vars>>

set_data_text ==
    /\ stack = <<>>
    /\ \E data \in DataTexts \cup {<<>>} :
          /\ data_edit' = data
          /\ data_text' = data
          /\ last' = Op("set_data_text", data)
    /\ UNCHANGED <<chat_input, chat_history, chat_area, status, cursor, stack,
                   appended>>
    /\ UNCHANGED <<fmt_vars, start_vars>>

Next ==
    \/ TypeData
    \/ TypeQuestion
    \/ ClearData
    \/ _paste_clipboard
    \/ _load_file
    \/ _on_send
    \/ _on_send_ask
    \/ clear_chat_history
    \/ set_data_text
    \/ InspectHistory

Spec == Init /\ [][Next]_vars

\* one call of the formatter on every bounded input
FormatInit ==
    /\ data_edit = <<>>
    /\ chat_input = <<>>
    /\ data_text = <<>>
    /\ chat_history = <<>>
    /\ chat_area = get_welcome_message
    /\ status = <<"Ready">>
    /\ cursor = 0
    /\ stack = <<>>
    /\ last = Op("init", <<>>)
    /\ appended = <<>>
    /\ FmtInit
    /\ StartIdle

FormatSpec == FormatInit /\ [][FmtNext]_vars

----------------------------------------------------------------------------
(* Start and model configuration: main() of main.py, the runner of         *)
(* chatbot.py, and LLMHelper built and configured by the host code         *)

validate_api_key == api_key

get_available_models == <<"gpt-4o-mini", "gpt-4o", "gpt-3.5-turbo">>

\* model names the host code asks for
ModelNames == {"gpt-4o-mini", "gpt-4o", "gpt-3.5-turbo", "gpt-5", ""}

IsAvailable(m) == \E i \in 1..Len(get_available_models) : get_available_models[i] = m

\* _setup_api raises ValueError when the key is missing
_setup_api == IF api_key THEN "ok" ELSE "ValueError"

\* LLMHelper(model=m): self.model = m, then _setup_api(); when that raises
\* no helper comes into being
LLMHelper_init(m) ==
    IF _setup_api = "ok"
    THEN [raised |-> FALSE, model |-> m]
    ELSE [raised |-> TRUE, model |-> "none"]

\* main() of main.py
main ==
    /\ entry = "none"
    /\ entry' = "main.py"
    /\ IF ~validate_api_key
       THEN /\ cfg_last' = Op("main", "exit 1")
            /\ UNCHANGED <<shown, model>>
       ELSE LET helper == LLMHelper_init(MODEL)
            IN  IF helper.raised
                THEN /\ cfg_last' = Op("main", "exit 1")
                     /\ UNCHANGED <<shown, model>>
                ELSE /\ model' = helper.model
                     /\ shown' = TRUE
                     /\ cfg_last' = Op("main", "shown")
    /\ UNCHANGED <<api_key, requests>>
    /\ UNCHANGED <<gui_vars, fmt_vars>>

\* the runner at the end of chatbot.py: the widget is built and shown;
\* _ask_llm uses the module's MODEL
chatbot_main ==
    /\ entry = "none"
    /\ entry' = "chatbot.py"
    /\ shown' = TRUE
    /\ model' = MODEL
    /\ cfg_last' = Op("chatbot_main", "shown")
    /\ UNCHANGED <<api_key, requests>>
    /\ UNCHANGED <<gui_vars, fmt_vars>>

\* the host code builds a helper of its own
NewHelper ==
    /\ entry = "none"
    /\ \E m \in ModelNames :
          LET helper == LLMHelper_init(m)
          IN  /\ cfg_last' = Op("LLMHelper", [model |-> m, raised |-> helper.raised])
              /\ IF helper.raised
                 THEN UNCHANGED <<entry, model>>
                 ELSE entry' = "llm_helper" /\ model' = helper.model
    /\ UNCHANGED <<api_key, shown, requests>>
    /\ UNCHANGED <<gui_vars, fmt_vars>>

\* set_model(m) on the helper of main.py's widget or of the host code
set_model ==
    /\ entry \in {"main.py", "llm_helper"}
    /\ model # "none"
    /\ \E m \in ModelNames :
          IF ~IsAvailable(m)
          THEN /\ cfg_last' = Op("set_model", [model |-> m, raised |-> TRUE])
               /\ UNCHANGED model
          ELSE /\ cfg_last' = Op("set_model", [model |-> m, raised |-> FALSE])
               /\ model' = m
    /\ UNCHANGED <<api_key, entry, shown, requests>>
    /\ UNCHANGED <<gui_vars, fmt_vars>>

\* ask_llm on a helper: one create call with self.model
helper_ask_llm ==
    /\ entry \in {"main.py", "llm_helper"}
    /\ model # "none"
    /\ requests < MaxRequests
    /\ requests' = requests + 1
    /\ cfg_last' = Op("ask_llm", model)
    /\ UNCHANGED <<api_key, entry, shown, model>>
    /\ UNCHANGED <<gui_vars, fmt_vars>>

\* an accepted send in the window of chatbot.py: _on_send calls _ask_llm,
\* which makes one create call with MODEL
chatbot_on_send ==
    /\ entry = "chatbot.py"
    /\ shown
    /\ requests < MaxRequests
    /\ requests' = requests + 1
    /\ cfg_last' = Op("_ask_llm", MODEL)
    /\ UNCHANGED <<api_key, entry, shown, model>>
    /\ UNCHANGED <<gui_vars, fmt_vars>>

StartInit ==
    /\ data_edit = <<>>
    /\ chat_input = <<>>
    /\ data_text = <<>>
    /\ chat_history = <<>>
    /\ chat_area = get_welcome_message
    /\ status = <<"Ready">>
    /\ cursor = 0
    /\ stack = <<>>
    /\ last = Op("init", <<>>)
    /\ appended = <<>>
    /\ FmtIdle
    /\ api_key \in BOOLEAN
    /\ entry = "none"
    /\ shown = FALSE
    /\ model = "none"
    /\ requests = 0
    /\ cfg_last = Op("init", <<>>)

StartNext ==
    \/ main
    \/ chatbot_main
    \/ NewHelper
    \/ set_model
    \/ helper_ask_llm
    \/ chatbot_on_send

StartSpec == StartInit /\ [][StartNext]_vars

----------------------------------------------------------------------------
(* Properties of the chat widget, checked under Spec *)

\* sub occurs in s
Contains(s, sub) ==
    \E i \in 0..(Len(s) - Len(sub)) : SubSeq(s, i + 1, i + Len(sub)) = sub

IsPrefix(s, t) == Len(s) <= Len(t) /\ SubSeq(t, 1, Len(s)) = s

\* the step is the handling of a failed completion call
FailedAsk == last'.op = "ask_llm" /\ ~last'.arg.outcome.ok

\* the step adds exactly one assistant entry whose text contains detail and
\* changes neither the rest of the transcript nor the data
OneAssistantEntryWith(detail) ==
    /\ Len(chat_history') = Len(chat_history) + 1
    /\ SubSeq(chat_history', 1, Len(chat_history)) = chat_history
    /\ chat_history'[Len(chat_history')][1] = "AI"
    /\ Contains(chat_history'[Len(chat_history')][2], detail)
    /\ data_edit' = data_edit
    /\ data_text' = data_text

\* C1 as stated: a failed completion call adds exactly one assistant entry
\* whose text contains the failure detail, the data and the rest of the
\* transcript being unchanged
C1_FailureEntryContainsDetail ==
    [][FailedAsk => OneAssistantEntryWith(last'.arg.outcome.text)]_vars

\* C1 amended: a failed completion call adds exactly one assistant entry
\* whose text contains the failure detail less its trailing whitespace, the
\* data and the rest of the transcript being unchanged
C1_FailureEntryContainsTrimmedDetail ==
    [][FailedAsk => OneAssistantEntryWith(rstrip(last'.arg.outcome.text))]_vars

C1_Witness ==
    /\ last.op = "ask_llm"
    /\ ~last.arg.outcome.ok
    /\ rstrip(last.arg.outcome.text) # last.arg.outcome.text
    /\ Len(chat_history) >= 2
    /\ chat_history[Len(chat_history)][1] = "AI"

\* C2: every request issued to the completion service carries a data text
\* and a question text that are non-empty after trimming
C2_RequestsCarryDataAndQuestion ==
    last.op = "ask_llm" =>
        /\ strip(last.arg.data) # <<>>
        /\ strip(last.arg.question) # <<>>

\* C3: at most one send is in flight at any time
C3_AtMostOneSendInFlight == Len(stack) <= 1

StatusWarnings ==
    { <<"Please paste or load your data first">>, <<"Please type your question">> }

\* C4: a send attempted with a data text or a question text that is empty
\* after trimming sets a status message, adds no entry to the transcript and
\* puts no request in flight
C4_EmptyInputHandledLocally ==
    [][(/\ last'.op = "_on_send"
        /\ (strip(data_edit) = <<>> \/ strip(chat_input) = <<>>))
       => /\ status' \in StatusWarnings
          /\ chat_history' = chat_history
          /\ chat_area' = chat_area
          /\ stack' = stack
          /\ cursor' = cursor]_vars

C4_Witness ==
    /\ last.op = "_on_send"
    /\ status = <<"Please type your question">>
    /\ data_text # <<>>
    /\ stack = <<>>

\* C5: a call of _add_to_chat with a message that is empty after trimming
\* changes neither the transcript nor the display; any other call appends
\* the one entry (sender, trimmed message) at the end and sets the display
\* to the render of the whole transcript
C5_AppendContract ==
    [][Len(appended') = Len(appended) + 1 =>
          LET sender == appended'[Len(appended')][1]
              message == appended'[Len(appended')][2]
          IN  IF strip(message) = <<>>
              THEN chat_history' = chat_history /\ chat_area' = chat_area
              ELSE /\ chat_history' = Append(chat_history, <<sender, strip(message)>>)
                   /\ chat_area' = build_chat_history_html(chat_history')]_vars

C5_Witness ==
    /\ \E i \in 1..Len(appended) : strip(appended[i][2]) = <<>>
    /\ \E i \in 1..Len(appended) :
          /\ strip(appended[i][2]) # <<>>
          /\ strip(appended[i][2]) # appended[i][2]
    /\ chat_history # <<>>

\* the entries a log of _add_to_chat calls leaves in the transcript
RECURSIVE Accepted(_)
Accepted(log) ==
    IF log = <<>> THEN <<>>
    ELSE (IF strip(Head(log)[2]) = <<>> THEN <<>>
          ELSE << <<Head(log)[1], strip(Head(log)[2])>> >>) \o Accepted(Tail(log))

\* C6: the snapshot is the accepted entries appended since the last clear,
\* in the order of the calls, and every step other than a clear leaves the
\* earlier transcript as a prefix of the later one
C6_AppendOnly ==
    /\ [](get_chat_history.items = Accepted(appended))
    /\ [][last'.op # "clear_chat_history" => IsPrefix(chat_history, chat_history')]_vars

C6_Witness ==
    /\ Len(chat_history) >= 3
    /\ Len(appended) > Len(chat_history)

\* C7: after clear_chat_history the snapshot is empty and the display shows
\* the welcome markup, which is the markup of the session start and is not
\* the empty text
C7_ClearResets ==
    /\ last.op = "clear_chat_history" =>
           /\ get_chat_history.items = <<>>
           /\ chat_area = get_welcome_message
           /\ chat_area # <<>>
    /\ last.op = "init" => chat_area = get_welcome_message

C7_Witness ==
    /\ last.op = "clear_chat_history"
    /\ last.arg >= 2

----------------------------------------------------------------------------
(* Properties of the formatter, checked under FormatSpec *)

IsBlank(line) == strip(line) = <<>>

IsBullet(line) == startswith(strip(line), <<"-", " ">>)

\* 3, 2 or 1 for a line that starts with "### ", "## " or "# ", otherwise 0
HeadingLevel(line) ==
    IF startswith(line, <<"#", "#", "#", " ">>) THEN 3
    ELSE IF startswith(line, <<"#", "#", " ">>) THEN 2
    ELSE IF startswith(line, <<"#", " ">>) THEN 1
    ELSE 0

\* the line holds two ** markers that do not overlap
HasBoldPair(line) ==
    \E i, j \in 1..Len(line) :
        /\ i + 2 <= j
        /\ j + 1 <= Len(line)
        /\ SubSeq(line, i, i + 1) = STAR2
        /\ SubSeq(line, j, j + 1) = STAR2

IsPlain(line) == ~IsBullet(line) /\ HeadingLevel(line) = 0 /\ ~HasBoldPair(line)

Count(s, c) == Cardinality({i \in 1..Len(s) : s[i] = c})

\* the bullet lines that start a list when blank lines close none: those
\* whose nearest non-blank line above is not a bullet line
ListStarts ==
    {i \in 1..Len(in_lines) :
        /\ IsBullet(in_lines[i])
        /\ ~\E j \in 1..(i - 1) :
              /\ IsBullet(in_lines[j])
              /\ \A k \in (j + 1)..(i - 1) : IsBlank(in_lines[k])}

\* C8: blank lines are dropped and close no list, so the output opens one
\* list for every run of bullet lines that only blank lines separate, has one
\* paragraph for every line that is neither blank nor a bullet, and closes
\* every list it opens
C8_BlankLinesKeepListOpen ==
    fpc = "output" =>
        /\ Count(html, "<ul>") = Cardinality(ListStarts)
        /\ Count(html, "</ul>") = Count(html, "<ul>")
        /\ Count(html, "<p>") =
               Cardinality({i \in 1..Len(in_lines) :
                               ~IsBlank(in_lines[i]) /\ ~IsBullet(in_lines[i])})

NoMarkdownTokens == \A i \in 1..Len(in_lines) : IsPlain(in_lines[i])

NotBlank(line) == ~IsBlank(line)

\* C9 as stated: an input without markdown tokens comes back as one
\* paragraph block holding the text with every line trimmed
C9_PlainTextIsOneTrimmedParagraph ==
    (fpc = "output" /\ NoMarkdownTokens) =>
        html = <<"<p>">>
                 \o join([i \in 1..Len(in_lines) |-> strip(in_lines[i])])
                 \o <<"</p>">>

\* C9 amended: an input without markdown tokens comes back as one paragraph
\* block for every line that is not blank, in the order of the lines and
\* separated by newlines, each block holding its line as written, leading and
\* trailing whitespace included; blank lines give nothing
C9_PlainTextIsOneParagraphPerLine ==
    (fpc = "output" /\ NoMarkdownTokens) =>
        LET kept == SelectSeq(in_lines, NotBlank) IN
        html = join([i \in 1..Len(kept) |-> <<"<p>">> \o kept[i] \o <<"</p>">>])

C9_Witness ==
    /\ fpc = "output"
    /\ NoMarkdownTokens
    /\ \E i \in 1..Len(in_lines) : IsBlank(in_lines[i])
    /\ \E i \in 1..Len(in_lines) :
          ~IsBlank(in_lines[i]) /\ strip(in_lines[i]) # in_lines[i]
    /\ Count(html, "<p>") >= 2

\* block is a paragraph block for line
IsParagraphOf(block, line) ==
    /\ Len(block) >= 2
    /\ block[1] = "<p>"
    /\ block[Len(block)] = "</p>"
    /\ strip(SubSeq(block, 2, Len(block) - 1)) = strip(line)

\* C10: a heading line followed by a plain text line gives exactly two
\* blocks, the heading block of the line's level holding the heading text,
\* then a paragraph block for the text line
C10_HeadingThenParagraph ==
    (/\ fpc = "output"
     /\ Len(in_lines) = 2
     /\ HeadingLevel(in_lines[1]) > 0
     /\ ~HasBoldPair(in_lines[1])
     /\ IsPlain(in_lines[2])
     /\ ~IsBlank(in_lines[2]))
    => LET level == HeadingLevel(in_lines[1])
           blocks == split(html)
       IN  /\ Len(blocks) = 2
           /\ blocks[1] = <<HeaderOpen(level)>>
                            \o SubSeq(in_lines[1], level + 2, Len(in_lines[1]))
                            \o <<HeaderClose(level)>>
           /\ IsParagraphOf(blocks[2], in_lines[2])

\* the lines the scan reads: the input lines after the bold pass and the
\* three heading passes
Substituted == split(header_sub(header_sub(header_sub(bold_sub(text), 3), 2), 1))

\* the blocks the input line i gives when every run of consecutive bullet
\* lines is one list: the list opens before the first line of the run and
\* closes after its last line
RunBlocks(i) ==
    LET n == Len(in_lines)
        line == Substituted[i]
    IN  IF IsBullet(in_lines[i])
        THEN (IF i = 1 \/ ~IsBullet(in_lines[i - 1]) THEN <<UL_OPEN>> ELSE <<>>)
                 \o << <<"<li>">> \o SubSeq(strip(line), 3, Len(strip(line)))
                          \o <<"</li>">> >>
                 \o (IF i = n \/ ~IsBullet(in_lines[i + 1]) THEN <<UL_CLOSE>> ELSE <<>>)
        ELSE IF IsBlank(in_lines[i]) THEN <<>>
        ELSE << <<"<p>">> \o line \o <<"</p>">> >>

\* C11: every maximal run of consecutive bullet lines gives exactly one list
\* block whose items are the texts after the 2-character prefix, in order;
\* the list is closed before the paragraph block of the next line that is
\* neither blank nor a bullet
C11_BulletRunIsOneList ==
    fpc = "output" =>
        /\ Len(Substituted) = Len(in_lines)
        /\ html = join(concat([i \in 1..Len(in_lines) |-> RunBlocks(i)]))

C11_Witness ==
    /\ fpc = "output"
    /\ Len(in_lines) = 3
    /\ IsBullet(in_lines[1])
    /\ IsBullet(in_lines[2])
    /\ IsPlain(in_lines[3])
    /\ ~IsBlank(in_lines[3])
    /\ Count(html, "<ul>") = 1
    /\ Count(html, "<li>") = 2

\* C12: the empty text and every text of blank lines only give the empty
\* output
C12_BlankInputGivesEmptyOutput ==
    (fpc = "output" /\ \A i \in 1..Len(in_lines) : IsBlank(in_lines[i]))
        => html = <<>>

C12_Witness ==
    /\ fpc = "output"
    /\ Len(in_lines) >= 2
    /\ \A i \in 1..Len(in_lines) : IsBlank(in_lines[i])
    /\ \E i \in 1..Len(in_lines) : in_lines[i] # <<>>
    /\ html = <<>>

HeadingTagOpen(level) == <<"<h1>", "<h2>", "<h3>">>[level]
HeadingTagClose(level) == <<"</h1>", "</h2>", "</h3>">>[level]

\* position of the first ** marker of s at or after position from, 0 when
\* there is none
FirstMarker(s, from) ==
    LET ms == {i \in from..(Len(s) - 1) : s[i] = "*" /\ s[i + 1] = "*"}
    IN  IF ms = {} THEN 0 ELSE CHOOSE i \in ms : \A k \in ms : i <= k

\* a line with its ** markers paired from left to right: each pair and the
\* text between becomes an emphasis element, a marker left without a partner
\* stays as it is
RECURSIVE Emphasised(_)
Emphasised(s) ==
    LET m1 == FirstMarker(s, 1)
        m2 == IF m1 = 0 THEN 0 ELSE FirstMarker(s, m1 + 2)
    IN  IF m2 = 0 THEN s
        ELSE SubSeq(s, 1, m1 - 1)
                 \o <<"<b>">> \o SubSeq(s, m1 + 2, m2 - 1) \o <<"</b>">>
                 \o Emphasised(SubSeq(s, m2 + 2, Len(s)))

\* the text of a line that is rendered: the heading text, the item text or
\* the line
Core(line) ==
    IF HeadingLevel(line) > 0 THEN SubSeq(line, HeadingLevel(line) + 2, Len(line))
    ELSE IF IsBullet(line) THEN SubSeq(strip(line), 3, Len(strip(line)))
    ELSE line

\* C19: a line that starts with "# ", "## " or "### " is rendered as a
\* heading of the level given by its number of # characters and never as a
\* list item, also when its text starts with "- "
C19_HeadingLinesAreNeverListItems ==
    fpc = "output" =>
        /\ \A level \in 1..3 :
              LET n == Cardinality({i \in 1..Len(in_lines) :
                                       HeadingLevel(in_lines[i]) = level})
              IN  /\ Count(html, HeadingTagOpen(level)) = n
                  /\ Count(html, HeadingTagClose(level)) = n
        /\ \A i \in 1..Len(in_lines) :
              LET level == HeadingLevel(in_lines[i]) IN
              level > 0 =>
                  Contains(html, <<HeadingTagOpen(level)>>
                                     \o Emphasised(Core(in_lines[i]))
                                     \o <<HeadingTagClose(level)>>)
        /\ Count(html, "<li>") =
               Cardinality({i \in 1..Len(in_lines) : IsBullet(in_lines[i])})

C19_Witness ==
    /\ fpc = "output"
    /\ \E i \in 1..Len(in_lines) :
          /\ HeadingLevel(in_lines[i]) = 1
          /\ startswith(Core(in_lines[i]), <<"-", " ">>)
    /\ \E i \in 1..Len(in_lines) : HeadingLevel(in_lines[i]) = 3
    /\ Count(html, "<li>") = 0
    /\ Count(html, "<h1>") >= 1

\* C20: in every line the ** markers are paired from left to right, each
\* pair with the text between becoming an emphasis element (an empty one when
\* nothing is between); a marker without a partner in its line is left as it
\* is
C20_BoldPairsLeftToRight ==
    fpc = "output" =>
        /\ \A i \in 1..Len(in_lines) :
              ~IsBlank(in_lines[i]) => Contains(html, Emphasised(Core(in_lines[i])))
        /\ LET n == Count(concat([i \in 1..Len(in_lines) |-> Emphasised(in_lines[i])]),
                          "<b>")
           IN  Count(html, "<b>") = n /\ Count(html, "</b>") = n

C20_Witness ==
    /\ fpc = "output"
    /\ \E i \in 1..Len(in_lines) :
          /\ Count(Emphasised(in_lines[i]), "<b>") = 1
          /\ Contains(Emphasised(in_lines[i]), STAR2)
          /\ in_lines[i][1] = "*"
          /\ in_lines[i][Len(in_lines[i])] = "*"
    /\ \E i \in 1..(Len(in_lines) - 1) :
          /\ FirstMarker(in_lines[i], 1) > 0
          /\ FirstMarker(in_lines[i + 1], 1) > 0
          /\ Emphasised(in_lines[i]) = in_lines[i]
    /\ Contains(html, <<"<b>", "</b>">>)

----------------------------------------------------------------------------
(* The window: rendering, requests, busy cursor, snapshot *)

\* the wrapper of one transcript entry
Wrapper(item) ==
    IF item[1] = "You"
    THEN <<"<div user>", "You", "<div user message>">> \o item[2] \o <<"</div user>">>
    ELSE <<"<div assistant>">> \o format_markdown_to_html(item[2])
             \o <<"</div assistant>">>

\* C13: the rendered transcript is the concatenation, in transcript order, of
\* one wrapper per entry: a "You" entry in the user template with its message
\* as it is, every other entry in the assistant template with its message
\* passed through the markdown formatter
C13_RenderIsWrappersInOrder ==
    /\ chat_history # <<>> =>
           chat_area = concat([i \in 1..Len(chat_history) |-> Wrapper(chat_history[i])])
    /\ chat_history = <<>> => chat_area = get_welcome_message

C13_Witness ==
    /\ Len(chat_history) >= 2
    /\ chat_history[1][1] = "You"
    /\ format_markdown_to_html(chat_history[1][2]) # chat_history[1][2]
    /\ Contains(chat_area, <<"<div user message>">> \o chat_history[1][2])
    /\ chat_history[2][1] = "AI"
    /\ Contains(chat_area, <<"<div assistant>", "<ul>">>)

\* the entries of a sequence of entries that a sender wrote
NumFrom(entries, sender) ==
    Cardinality({i \in 1..Len(entries) : entries[i][1] = sender})

\* C16: every accepted send issues exactly one request, successful or not:
\* the requests made and the sends still waiting for theirs add up to the
\* accepted sends, a request step ends the innermost waiting send whatever
\* its outcome, and only an accepted send adds a waiting one
C16_OneRequestPerAcceptedSend ==
    /\ [](NumFrom(appended, "AI") + Len(stack) = NumFrom(appended, "You"))
    /\ [][/\ last'.op = "ask_llm" =>
                 /\ stack # <<>>
                 /\ stack' = SubSeq(stack, 1, Len(stack) - 1)
                 /\ last'.arg.question = stack[Len(stack)]
                 /\ NumFrom(appended', "AI") = NumFrom(appended, "AI") + 1
          /\ last'.op # "ask_llm" =>
                 \/ stack' = stack
                 \/ /\ last'.op = "_on_send"
                    /\ stack' = Append(stack, strip(chat_input))
                    /\ NumFrom(appended', "You") = NumFrom(appended, "You") + 1]_vars

C16_Witness ==
    /\ last.op = "ask_llm"
    /\ ~last.arg.outcome.ok
    /\ stack = <<>>
    /\ NumFrom(appended, "You") = 2
    /\ NumFrom(appended, "AI") = 2

\* C17: the wait cursor is set exactly while a send is in flight: one
\* override per send waiting for or making its request, none when no send is
\* in flight; a request step removes one override on success and on failure,
\* and a rejected send sets none
C17_BusyCursorExactlyDuringCall ==
    /\ [](cursor = Len(stack))
    /\ [][/\ last'.op = "ask_llm" => cursor >= 1 /\ cursor' = cursor - 1
          /\ (last'.op = "_on_send" /\ on_send_check(data_edit, chat_input) # "ok") =>
                 cursor' = cursor]_vars

C17_Witness ==
    /\ last.op = "ask_llm"
    /\ ~last.arg.outcome.ok
    /\ cursor = 0
    /\ stack = <<>>
    /\ status = STATUS_ERROR \o API_ERROR \o last.arg.outcome.text

\* C18: changing the list that get_chat_history returned changes neither the
\* transcript nor what a later get_chat_history or rendering gives
C18_SnapshotIsACopy ==
    [][last'.op = "get_chat_history" =>
          /\ chat_history' = chat_history
          /\ get_chat_history' = get_chat_history
          /\ build_chat_history_html(chat_history') = build_chat_history_html(chat_history)
          /\ chat_area' = chat_area]_vars

C18_Witness ==
    /\ last.op = "get_chat_history"
    /\ last.arg.mutation = "replace"
    /\ chat_history # <<>>
    /\ last.arg.held # chat_history
    /\ Len(last.arg.held) = Len(chat_history)

----------------------------------------------------------------------------
(* Start and model configuration *)

\* C14: an unsupported model name is never accepted: the constructor and
\* set_model raise for a name outside get_available_models and leave the
\* model as it was, so the model of a helper is always an available one
C14_ModelAlwaysAvailable ==
    /\ [](model # "none" => IsAvailable(model))
    /\ [][(cfg_last'.op \in {"LLMHelper", "set_model"}
             /\ ~IsAvailable(cfg_last'.arg.model)) =>
          (cfg_last'.arg.raised /\ model' = model)]_vars

\* C15: with the key missing nothing starts: no widget is shown and no
\* completion call is made, whatever is started
C15_NoStartWithoutKey ==
    ~api_key => (~shown /\ requests = 0)

----------------------------------------------------------------------------
(* The transcript and the display between operations *)

\* entries alternate "You", "AI", starting with "You" and ending with "AI"
IsPairs(history) ==
    /\ Len(history) % 2 = 0
    /\ \A i \in 1..Len(history) :
          history[i][1] = (IF i % 2 = 1 THEN "You" ELSE "AI")

\* C21: whenever no send is in flight the transcript is a sequence of
\* ("You", "AI") pairs: every accepted send has added its question and right
\* after it exactly one assistant entry, whatever the service answered
C21_TranscriptIsPairs ==
    stack = <<>> => IsPairs(chat_history)

\* C22: the display shows the welcome markup while the transcript has had no
\* entry since the start or the last clear, and otherwise the full rendering
\* of the transcript as it is now; no step changes one without the other
\* following
C22_DisplayFollowsTranscript ==
    /\ [](chat_area = IF chat_history = <<>>
                      THEN get_welcome_message
                      ELSE build_chat_history_html(chat_history))
    /\ [][chat_history' = chat_history => chat_area' = chat_area]_vars

C22_Witness ==
    /\ last.op = "_on_send"
    /\ status = <<"Please type your question">>
    /\ Len(chat_history) = 3
    /\ stack = <<>>
    /\ chat_area = build_chat_history_html(chat_history)
    /\ chat_area # get_welcome_message

----------------------------------------------------------------------------
(* The formatter: list markup *)

\* list-open and list-close markers among the first i elements of the output
Opens(i) == Count(SubSeq(html, 1, i), "<ul>")
Closes(i) == Count(SubSeq(html, 1, i), "</ul>")

\* C23: for every input the list markup of the output is well nested: open
\* and close markers alternate, starting with an open and ending with a
\* close; every item lies between an open and its close; every list holds at
\* least one item; no paragraph lies inside a list
C23_ListMarkupWellNested ==
    fpc = "output" =>
        /\ \A i \in 0..Len(html) : Closes(i) <= Opens(i) /\ Opens(i) <= Closes(i) + 1
        /\ Opens(Len(html)) = Closes(Len(html))
        /\ \A i \in 1..Len(html) :
              /\ html[i] \in {"<li>", "</li>"} => Opens(i) = Closes(i) + 1
              /\ html[i] \in {"<p>", "</p>"} => Opens(i) = Closes(i)
              /\ html[i] = "<ul>" =>
                     \E j \in (i + 1)..Len(html) :
                         /\ html[j] = "<li>"
                         /\ Closes(j) = Closes(i)

====
